---- MODULE Spec2Model ----
(***************************************************************************)
(* Bar-replay engine of src/data.py: HistoricCSVDataHandler and            *)
(* QuandlDataHandler.  A handler loads one price series per symbol,        *)
(* re-indexes every series on combined_index with forward fill, and then   *)
(* reveals one row per symbol per update_latest_data() call.               *)
(*                                                                         *)
(* A pandas DataFrame is a record [columns, rows]: the labels of its data  *)
(* columns and its rows <<timestamp, v1, .., vk>>, one value per column,   *)
(* so row[2] is the value of the first column, the one _get_new_data       *)
(* reads as row[1][0].  A bar is the tuple <<symbol, row[0], row[1][0]>>   *)
(* built by _get_new_data.                                                 *)
(***************************************************************************)
EXTENDS Integers, Sequences, FiniteSets, TLC

(* ---------------------------- bounds ----------------------------------- *)
MaxT == 2
MaxExtra == 2
MaxReloads == 1
MaxN == 1

Universe == {"A", "B"}
UnknownSymbol == "ZZZ"
Timestamps == 1..MaxT

(* the members of DataSource, the source argument of                       *)
(* HistoricCSVDataHandler; "QUANDL" stands for a QuandlDataHandler, which  *)
(* takes no source                                                         *)
Sources == {"NASDAQ", "YAHOO", "KRAKEN"}
Handlers == Sources \cup {"QUANDL"}

(* pandas' missing value, produced by reindex(method='pad') where a series *)
(* has no observation at or before the requested label.  Source prices are *)
(* drawn from the naturals, so the marker never collides with a price.     *)
NaN == -1

(* A positive price that identifies the row it comes from, and the         *)
(* non-positive price of a bad row.                                        *)
GoodPrice(t) == 100 + t
BadPrice == 0

(* the value in the k-th data column of the good row dated t: every column *)
(* carries its own prices                                                  *)
ColumnPrice(k, t) == GoodPrice(t) + 100 * (k - 1)

(* the characters of a column label, and a one-character str as a value of *)
(* a bar: the negated code point, apart from dates, prices and NaN         *)
Chars(label) ==
    CASE label = "Close" -> <<"C", "l", "o", "s", "e">>
      [] label = "Open" -> <<"O", "p", "e", "n">>
      [] label = "Closing price" ->
            <<"C", "l", "o", "s", "i", "n", "g", " ", "p", "r", "i", "c", "e">>

Ord(c) ==
    CASE c = "C" -> 67 [] c = "O" -> 79 [] c = "l" -> 108 [] c = "p" -> 112

Char(c) == 0 - Ord(c)

(* ------------------------- sequence helpers ---------------------------- *)
RECURSIVE Reverse(_)
Reverse(s) ==
    IF s = <<>> THEN <<>> ELSE Append(Reverse(Tail(s)), Head(s))

Index(df) == [i \in 1..Len(df.rows) |-> df.rows[i][1]]
IndexSet(df) == {df.rows[i][1] : i \in 1..Len(df.rows)}

HasColumn(df, label) == \E k \in 1..Len(df.columns) : df.columns[k] = label

(* df[label]: the values of one column, row by row *)
Column(df, label) ==
    LET k == CHOOSE j \in 1..Len(df.columns) : df.columns[j] = label
    IN [i \in 1..Len(df.rows) |-> df.rows[i][1 + k]]

(* pd.DataFrame(df[label]) with its column renamed *)
OneColumn(df, label, name) ==
    [columns |-> <<name>>,
     rows |-> [i \in 1..Len(df.rows) |->
                 <<df.rows[i][1], Column(df, label)[i]>>]]

(* ------------------------------ loaders -------------------------------- *)
(* df[df['Close'] > 0.0] of a frame whose only column is 'Close' *)
FilterPositive(df) ==
    LET keep(row) == row[2] # NaN /\ row[2] > 0
    IN [columns |-> df.columns, rows |-> SelectSeq(df.rows, keep)]

(* read_csv(...).iloc[::-1], keep 'Closing price' as 'Close', drop rows    *)
(* <= 0                                                                    *)
parse_nasdaq_csv(file) ==
    FilterPositive(OneColumn([columns |-> file.columns,
                              rows |-> Reverse(file.rows)],
                             "Closing price", "Close"))

(* read_csv(...): every column and every row as they are in the file *)
parse_yahoo_csv(file) == file

(* the columns of the provider's answer, and those _get_nasdaq_data drops *)
QuandlColumns == <<"Index Value", "High", "Low", "Total Market Value",
                   "Dividend Market Value">>
Dropped == {"High", "Low", "Total Market Value", "Dividend Market Value"}

(* quandl.get(...), drop the other columns, name the one left 'Close',     *)
(* drop rows <= 0                                                          *)
_get_nasdaq_data(response) ==
    LET left == CHOOSE label \in {response.columns[k] :
                                     k \in 1..Len(response.columns)} :
                    label \notin Dropped
    IN FilterPositive(OneColumn(response, left, "Close"))

(* the loader _open_convert_csv_files runs for one symbol in its first     *)
(* loop: parse_nasdaq_csv for DataSource.NASDAQ, parse_yahoo_csv for every *)
(* other source                                                            *)
Load(src, file) ==
    IF src = "NASDAQ" THEN parse_nasdaq_csv(file)
    ELSE parse_yahoo_csv(file)

(* ----------------------------- alignment ------------------------------- *)
(* variant: the result of union() is assigned back to combined_index *)
RECURSIVE UnionSorted(_, _)
UnionSorted(a, b) ==
    IF a = <<>> THEN b
    ELSE IF b = <<>> THEN a
    ELSE IF a[1] < b[1] THEN <<a[1]>> \o UnionSorted(Tail(a), b)
    ELSE IF b[1] < a[1] THEN <<b[1]>> \o UnionSorted(a, Tail(b))
    ELSE <<a[1]>> \o UnionSorted(Tail(a), Tail(b))

RECURSIVE CombinedIndexFrom_Assigned(_, _, _, _)
CombinedIndexFrom_Assigned(sl, native, i, combined) ==
    IF i > Len(sl) THEN combined
    ELSE CombinedIndexFrom_Assigned(sl, native, i + 1,
            IF i = 1 THEN Index(native[sl[1]])
            ELSE UnionSorted(combined, Index(native[sl[i]])))

(* combined_index after the first loop: the index of the first symbol.     *)
(* combined_index.union(...) returns a new Index that is never assigned,   *)
(* so the later symbols leave combined_index as it is.                     *)
RECURSIVE CombinedIndexFrom(_, _, _, _)
CombinedIndexFrom(sl, native, i, combined) ==
    IF i > Len(sl) THEN combined
    ELSE CombinedIndexFrom(sl, native, i + 1,
            IF i = 1 THEN Index(native[sl[1]]) ELSE combined)

combined_index(sl, native) == CombinedIndexFrom(sl, native, 1, <<>>)

(* a row without observation: NaN in every column *)
NaNs(df) == [k \in 1..Len(df.columns) |-> NaN]

(* variant: reindex without method='pad', only exact labels get a value *)
Pad_Exact(df, t) ==
    LET at == {i \in 1..Len(df.rows) : df.rows[i][1] = t}
    IN IF at = {} THEN NaNs(df) ELSE Tail(df.rows[CHOOSE i \in at : TRUE])

(* the values method='pad' gives at label t: those of the row of df with   *)
(* the greatest timestamp <= t, NaN when there is none                     *)
Pad(df, t) ==
    LET before == {i \in 1..Len(df.rows) : df.rows[i][1] <= t}
    IN IF before = {} THEN NaNs(df)
       ELSE LET last == CHOOSE i \in before :
                          \A j \in before : df.rows[j][1] <= df.rows[i][1]
            IN Tail(df.rows[last])

(* variant: rows without a value are dropped after the reindex (dropna) *)
Reindex_DropNa(df, idx) ==
    LET defined(row) == row[2] # NaN
    IN [columns |-> df.columns,
        rows |-> SelectSeq([i \in 1..Len(idx) |->
                               <<idx[i]>> \o Pad(df, idx[i])], defined)]

(* DataFrame.reindex(index=idx, method='pad') *)
Reindex(df, idx) ==
    [columns |-> df.columns,
     rows |-> [i \in 1..Len(idx) |-> <<idx[i]>> \o Pad(df, idx[i])]]

(* second loop of _open_convert_csv_files / _load_convert_quandl_data:     *)
(* every symbol's series re-indexed on combined_index                      *)
AlignedTables(sl, native) ==
    LET idx == combined_index(sl, native)
    IN [s \in {sl[i] : i \in 1..Len(sl)} |-> Reindex(native[s], idx)]

_open_convert_csv_files(src, sl, dir) ==
    AlignedTables(sl, [s \in {sl[i] : i \in 1..Len(sl)} |-> Load(src, dir[s])])

_load_convert_quandl_data(sl, remote) ==
    AlignedTables(sl, [s \in {sl[i] : i \in 1..Len(sl)} |->
                          _get_nasdaq_data(remote[s])])

(* HistoricCSVDataHandler(.., source=handler) or QuandlDataHandler(..) *)
Construct(handler, sl, data) ==
    IF handler = "QUANDL" THEN _load_convert_quandl_data(sl, data)
    ELSE _open_convert_csv_files(handler, sl, data)

(* self.symbol_data[symbol] after construction: the iterrows() iterator of *)
(* the symbol's table, of which `taken` rows have been taken               *)
RowIterator(taken) ==
    [type |-> "iterrows", taken |-> taken, columns |-> <<>>, rows |-> <<>>]

(* self.symbol_data[symbol] holding a DataFrame, as the loaders leave it *)
Frame(df) ==
    [type |-> "DataFrame", taken |-> 0, columns |-> df.columns,
     rows |-> df.rows]

(* ------------------------------- state --------------------------------- *)
VARIABLES
    source,              \* a DataSource: HistoricCSVDataHandler(source=..);
                         \* "QUANDL": QuandlDataHandler
    files,               \* symbol -> its csv file / the provider's answer
    symbol_list,         \* self.symbol_list
    symbol_dataframe,    \* self.symbol_dataframe: symbol -> aligned table
    all_data,            \* self.all_data: copy of the aligned tables
    symbol_data,         \* self.symbol_data: symbol -> row iterator of its
                         \* table, or the DataFrame a loader stored
    latest_symbol_data,  \* self.latest_symbol_data: symbol -> revealed bars
    continue_backtest,   \* self.continue_backtest
    events,              \* self.events: the MarketEvents put so far
    calls,               \* number of update_latest_data() calls made
    ret,                 \* outcome of the last call of a public method
    requested,           \* the symbol_list argument given to __init__
    unavailable,         \* symbols whose csv file / provider data is missing
    constructed,         \* __init__ returned an object (it did not raise)
    pc,                  \* "idle", or "loop" inside update_latest_data
    attempted            \* symbols the running update_latest_data has tried

vars == <<source, files, symbol_list, symbol_dataframe, all_data, symbol_data,
          latest_symbol_data, continue_backtest, events, calls, ret,
          requested, unavailable, constructed, pc, attempted>>

(* what construction fixes: no method writes these afterwards *)
setup == <<source, files, symbol_list, requested, unavailable, constructed>>

Symbols == {symbol_list[i] : i \in 1..Len(symbol_list)}

(* update_latest_data is followed for MaxExtra calls past the rows of the   *)
(* calendar                                                                *)
TickBound == Len(symbol_dataframe[symbol_list[1]].rows) + MaxExtra

NoCall == [op |-> "none", symbol |-> "", N |-> 0,
           kind |-> "none", value |-> <<>>, exc |-> ""]

(* ------------------------------ inputs --------------------------------- *)
(* chronological rows on the dates `present`, `width` values each; the     *)
(* rows dated in `bad` carry the non-positive price                        *)
RECURSIVE SortedRows(_, _, _)
SortedRows(present, bad, width) ==
    IF present = {} THEN <<>>
    ELSE LET t == CHOOSE x \in present : \A y \in present : x <= y
         IN <<(<<t>> \o [k \in 1..width |->
                           IF t \in bad THEN BadPrice ELSE ColumnPrice(k, t)])>>
            \o SortedRows(present \ {t}, bad \ {t}, width)

(* the chronological series a source can hold: any subset of the dates,    *)
(* any of its rows carrying a non-positive price                           *)
ChronSeries(dates, width) ==
    {SortedRows(present, bad, width) : <<present, bad>> \in
        {pb \in (SUBSET dates) \X (SUBSET dates) : pb[2] \subseteq pb[1]}}

(* the data columns a handler's input can have: the NASDAQ OMX layout, the *)
(* provider's answer, or a Yahoo layout with the close first, with the     *)
(* close after the open, or without a close                                *)
YahooHeaders == {<<"Close">>, <<"Open", "Close">>, <<"Open">>}

Headers(handler) ==
    IF handler = "NASDAQ" THEN {<<"Closing price">>}
    ELSE IF handler = "QUANDL" THEN {QuandlColumns}
    ELSE YahooHeaders

(* NASDAQ csv files list the newest row first; the others the oldest first *)
FileOf(handler, header, series) ==
    [columns |-> header,
     rows |-> IF handler = "NASDAQ" THEN Reverse(series) ELSE series]

(* a list of one and a list of two symbols; the symbols of the universe    *)
(* are interchangeable, their data being drawn from the same set           *)
SymbolLists == {<<"A">>, <<"A", "B">>}

(* __init__ followed by the load: the state once construction returned *)
Constructed(handler, sl, data) ==
    /\ source = handler
    /\ symbol_list = sl
    /\ files = data
    /\ symbol_dataframe = Construct(handler, sl, data)
    /\ all_data = symbol_dataframe
    /\ symbol_data = [s \in {sl[i] : i \in 1..Len(sl)} |-> RowIterator(0)]
    /\ latest_symbol_data = [s \in {sl[i] : i \in 1..Len(sl)} |-> <<>>]
    /\ continue_backtest = TRUE
    /\ events = <<>>
    /\ calls = 0
    /\ ret = NoCall
    /\ requested = sl
    /\ constructed = TRUE
    /\ pc = "idle"
    /\ attempted = <<>>

(* variant: the loader swallows the error and goes on with an empty frame *)
DataUnavailable_Tolerated(sl, unavail) == FALSE

(* pd.read_csv / quandl.get raises for a symbol without data, and the      *)
(* exception leaves the first loop and __init__                            *)
DataUnavailable(sl, unavail) == \E i \in 1..Len(sl) : sl[i] \in unavail

(* __init__ raised: the caller holds no handler; its event queue is as it  *)
(* was                                                                     *)
NotConstructed(handler, sl, data) ==
    /\ source = handler
    /\ symbol_list = <<>>
    /\ files = data
    /\ symbol_dataframe = <<>>
    /\ all_data = <<>>
    /\ symbol_data = <<>>
    /\ latest_symbol_data = <<>>
    /\ continue_backtest = TRUE
    /\ events = <<>>
    /\ calls = 0
    /\ ret = NoCall
    /\ requested = sl
    /\ constructed = FALSE
    /\ pc = "idle"
    /\ attempted = <<>>

(* a symbol without data has no rows to offer *)
Init ==
    \E handler \in Handlers, sl \in SymbolLists :
      \E unavail \in SUBSET {sl[i] : i \in 1..Len(sl)},
         header \in Headers(handler) :
        \E series \in [{sl[i] : i \in 1..Len(sl)} ->
                          ChronSeries(Timestamps, Len(header))] :
          /\ \A s \in unavail : series[s] = <<>>
          /\ unavailable = unavail
          /\ LET data == [s \in DOMAIN series |->
                             FileOf(handler, header, series[s])]
             IN IF DataUnavailable(sl, unavail)
                THEN NotConstructed(handler, sl, data)
                ELSE Constructed(handler, sl, data)

(* ------------------------------ replay --------------------------------- *)
(* Variants of the replay code used to test the properties below:          *)
(*   _get_new_data_Rewind   the row iterator starts over once it ran out;  *)
(*   UpdateSymbol_NoStop    StopIteration is swallowed, flag left alone;   *)
(*   UpdateSymbol_Replace   the bar replaces the buffer instead of being   *)
(*                          appended;                                      *)
(*   update_latest_data_PutInLoop   events.put() sits inside the for loop; *)
(*   UpdateSymbol_NoCatch   next() is called without the try/except.       *)

(* iterating a DataFrame yields its column labels, from the first one on   *)
(* every time; of a label the generator builds the bar                     *)
(* <<symbol, label[0], label[1][0]>>                                       *)
LabelBar(symbol, label) ==
    <<symbol, Char(Chars(label)[1]), Char(Chars(label)[2])>>

FromFrame(symbol, cursor) ==
    IF cursor.columns = <<>>
    THEN [stop |-> TRUE, cursor |-> cursor, data |-> <<>>]
    ELSE [stop |-> FALSE, cursor |-> cursor,
          data |-> LabelBar(symbol, cursor.columns[1])]

_get_new_data_Rewind(symbol, cursor) ==
    LET df == symbol_dataframe[symbol].rows
        taken == cursor.taken
    IN IF cursor.type = "DataFrame" THEN FromFrame(symbol, cursor)
       ELSE IF taken < Len(df)
       THEN [stop |-> FALSE, cursor |-> RowIterator(taken + 1),
             data |-> <<symbol, df[taken + 1][1], df[taken + 1][2]>>]
       ELSE [stop |-> TRUE, cursor |-> RowIterator(0), data |-> <<>>]

(* next(self._get_new_data(symbol)): a fresh generator over                *)
(* self.symbol_data[symbol].  Over the shared iterrows() iterator it takes *)
(* one row from it and is then discarded; with no row left its for loop    *)
(* ends and next() raises StopIteration.  Over a DataFrame it starts a new *)
(* iteration of the frame.                                                 *)
_get_new_data(symbol, cursor) ==
    LET df == symbol_dataframe[symbol].rows
        taken == cursor.taken
    IN IF cursor.type = "DataFrame" THEN FromFrame(symbol, cursor)
       ELSE IF taken < Len(df)
       THEN [stop |-> FALSE, cursor |-> RowIterator(taken + 1),
             data |-> <<symbol, df[taken + 1][1], df[taken + 1][2]>>]
       ELSE [stop |-> TRUE, cursor |-> cursor, data |-> <<>>]

UpdateSymbol_NoStop(st, symbol) ==
    LET r == _get_new_data(symbol, st.symbol_data[symbol])
    IN IF r.stop
       THEN [st EXCEPT !.symbol_data[symbol] = r.cursor]
       ELSE [st EXCEPT !.symbol_data[symbol] = r.cursor,
                       !.latest_symbol_data[symbol] = Append(@, r.data)]

UpdateSymbol_Replace(st, symbol) ==
    LET r == _get_new_data(symbol, st.symbol_data[symbol])
    IN IF r.stop
       THEN [st EXCEPT !.symbol_data[symbol] = r.cursor,
                       !.continue_backtest = FALSE]
       ELSE [st EXCEPT !.symbol_data[symbol] = r.cursor,
                       !.latest_symbol_data[symbol] = <<r.data>>]

UpdateSymbol_NoCatch(st, symbol) ==
    LET r == _get_new_data(symbol, st.symbol_data[symbol])
    IN IF r.stop
       THEN [st EXCEPT !.symbol_data[symbol] = r.cursor,
                       !.exc = "StopIteration"]
       ELSE [st EXCEPT !.symbol_data[symbol] = r.cursor,
                       !.latest_symbol_data[symbol] = Append(@, r.data)]

(* one pass of the for loop of update_latest_data for one symbol   *)
UpdateSymbol(st, symbol) ==
    LET r == _get_new_data(symbol, st.symbol_data[symbol])
    IN IF r.stop
       THEN [st EXCEPT !.symbol_data[symbol] = r.cursor,
                       !.continue_backtest = FALSE]
       ELSE [st EXCEPT !.symbol_data[symbol] = r.cursor,
                       !.latest_symbol_data[symbol] = Append(@, r.data)]

RECURSIVE UpdateLoop(_, _)
UpdateLoop(st, i) ==
    IF i > Len(symbol_list) \/ st.exc # "" THEN st
    ELSE UpdateLoop(UpdateSymbol(st, symbol_list[i]), i + 1)

(* self.events.put(MarketEvent()) *)
Put(q) == Append(q, "MarketEvent")

(* the fields the for loop works on; exc names an exception on its way out *)
LoopState ==
    [symbol_data |-> symbol_data,
     latest_symbol_data |-> latest_symbol_data,
     continue_backtest |-> continue_backtest,
     exc |-> ""]

Returned(op) == [op |-> op, symbol |-> "", N |-> 0,
                 kind |-> "return", value |-> <<>>, exc |-> ""]
Raised(op, e) == [op |-> op, symbol |-> "", N |-> 0,
                  kind |-> "raise", value |-> <<>>, exc |-> e]

update_latest_data_PutInLoop ==
    /\ constructed /\ pc = "idle"
    /\ calls < TickBound
    /\ LET st == UpdateLoop(LoopState, 1)
       IN /\ symbol_data' = st.symbol_data
          /\ latest_symbol_data' = st.latest_symbol_data
          /\ continue_backtest' = st.continue_backtest
          /\ ret' = IF st.exc = "" THEN Returned("update_latest_data")
                    ELSE Raised("update_latest_data", st.exc)
    /\ events' = events \o [i \in 1..Len(symbol_list) |-> "MarketEvent"]
    /\ calls' = calls + 1
    /\ UNCHANGED <<setup, symbol_dataframe, all_data, pc, attempted>>

(* a whole update_latest_data() call; an exception leaving the loop would  *)
(* skip the put                                                            *)
update_latest_data ==
    /\ constructed /\ pc = "idle"
    /\ calls < TickBound
    /\ LET st == UpdateLoop(LoopState, 1)
       IN /\ symbol_data' = st.symbol_data
          /\ latest_symbol_data' = st.latest_symbol_data
          /\ continue_backtest' = st.continue_backtest
          /\ events' = IF st.exc = "" THEN Put(events) ELSE events
          /\ ret' = IF st.exc = "" THEN Returned("update_latest_data")
                    ELSE Raised("update_latest_data", st.exc)
    /\ calls' = calls + 1
    /\ UNCHANGED <<setup, symbol_dataframe, all_data, pc, attempted>>

(* ------------------------------- query --------------------------------- *)
(* lst[start:] for a Python list *)
SliceFrom(lst, start) ==
    LET n == Len(lst)
        from == IF start < 0 THEN (IF n + start < 0 THEN 0 ELSE n + start)
                ELSE (IF start > n THEN n ELSE start)
    IN SubSeq(lst, from + 1, n)

(* variant: a missing key reads as an empty buffer (dict.get(symbol, [])) *)
get_latest_data_Default(symbol, N) ==
    IF symbol \in DOMAIN latest_symbol_data
    THEN [kind |-> "return", value |-> SliceFrom(latest_symbol_data[symbol], -N),
          exc |-> ""]
    ELSE [kind |-> "return", value |-> <<>>, exc |-> ""]

(* the outcome of get_latest_data(symbol, N): the returned list, or the    *)
(* exception that leaves the call.  For a key that is not in               *)
(* latest_symbol_data the handler of KeyError prints the message template  *)
(* and then calls .format on print's result, None: AttributeError          *)
get_latest_data(symbol, N) ==
    IF symbol \in DOMAIN latest_symbol_data
    THEN [kind |-> "return", value |-> SliceFrom(latest_symbol_data[symbol], -N),
          exc |-> ""]
    ELSE [kind |-> "raise", value |-> <<>>, exc |-> "AttributeError"]

GetLatest ==
    /\ constructed /\ pc = "idle"
    /\ \E symbol \in Universe \cup {UnknownSymbol}, N \in 0..MaxN :
         LET out == get_latest_data(symbol, N)
         IN ret' = [op |-> "get_latest_data", symbol |-> symbol, N |-> N,
                    kind |-> out.kind, value |-> out.value, exc |-> out.exc]
    /\ UNCHANGED <<setup, symbol_dataframe, all_data, symbol_data,
                   latest_symbol_data, continue_backtest, events, calls,
                   pc, attempted>>


(* ------------------------ the loaders, called again -------------------- *)
(* parse_yahoo_csv(symbol) and parse_nasdaq_csv(symbol) are methods of     *)
(* HistoricCSVDataHandler without a leading underscore: called on a built  *)
(* handler they read the symbol's file again and store the frame in        *)
(* self.symbol_data[symbol], in place of the row iterator.  The directory  *)
(* holds the files of the requested symbols; read_csv raises for any other *)
(* symbol, and tmp['Closing price'] raises for a file without that column, *)
(* both before the assignment.                                             *)
(* the symbols whose entry of self.symbol_data holds a frame again; the    *)
(* loaders are followed for MaxReloads symbols                             *)
Reloaded ==
    {s \in DOMAIN symbol_data : symbol_data[s].type = "DataFrame"}

LoaderCall(op, symbol, kind, exc) ==
    [op |-> op, symbol |-> symbol, N |-> 0, kind |-> kind, value |-> <<>>,
     exc |-> exc]

ParseYahoo ==
    /\ constructed /\ pc = "idle"
    /\ source \in Sources
    /\ \E symbol \in Universe \cup {UnknownSymbol} :
         IF symbol \notin DOMAIN files
         THEN /\ ret' = LoaderCall("parse_yahoo_csv", symbol, "raise",
                                   "FileNotFoundError")
              /\ UNCHANGED symbol_data
         ELSE /\ Cardinality(Reloaded \cup {symbol}) <= MaxReloads
              /\ symbol_data' = [symbol_data EXCEPT ![symbol] =
                                    Frame(parse_yahoo_csv(files[symbol]))]
              /\ ret' = LoaderCall("parse_yahoo_csv", symbol, "return", "")
    /\ UNCHANGED <<setup, symbol_dataframe, all_data, latest_symbol_data,
                   continue_backtest, events, calls, pc, attempted>>

ParseNasdaq ==
    /\ constructed /\ pc = "idle"
    /\ source \in Sources
    /\ \E symbol \in Universe \cup {UnknownSymbol} :
         IF symbol \notin DOMAIN files
         THEN /\ ret' = LoaderCall("parse_nasdaq_csv", symbol, "raise",
                                   "FileNotFoundError")
              /\ UNCHANGED symbol_data
         ELSE IF ~HasColumn(files[symbol], "Closing price")
         THEN /\ ret' = LoaderCall("parse_nasdaq_csv", symbol, "raise",
                                   "KeyError")
              /\ UNCHANGED symbol_data
         ELSE /\ Cardinality(Reloaded \cup {symbol}) <= MaxReloads
              /\ symbol_data' = [symbol_data EXCEPT ![symbol] =
                                    Frame(parse_nasdaq_csv(files[symbol]))]
              /\ ret' = LoaderCall("parse_nasdaq_csv", symbol, "return", "")
    /\ UNCHANGED <<setup, symbol_dataframe, all_data, latest_symbol_data,
                   continue_backtest, events, calls, pc, attempted>>

(* ------------------------------ baseline ------------------------------- *)
(* Floating point values of the report: a ratio n/d of naturals in lowest  *)
(* terms, +inf (x/0 with x > 0) or nan (missing, 0/0, inf*0).              *)
RECURSIVE Gcd(_, _)
Gcd(a, b) == IF b = 0 THEN a ELSE Gcd(b, a % b)

FNan == [k |-> "nan", n |-> 0, d |-> 0]
FInf == [k |-> "inf", n |-> 1, d |-> 0]
FNum(n, d) == [k |-> "num", n |-> n \div Gcd(n, d), d |-> d \div Gcd(n, d)]
FOne == FNum(1, 1)

(* 1.0 + Series.pct_change() at one row: 1 + (cur - prev) / prev.  Missing *)
(* prices only lead a column, so there is nothing for pct_change to fill.  *)
OnePlusPctChange(prev, cur) ==
    IF prev = NaN \/ cur = NaN THEN FNan
    ELSE IF prev = 0 THEN (IF cur = 0 THEN FNan ELSE FInf)
    ELSE FNum(cur, prev)

FMul(a, b) ==
    IF a.k = "nan" \/ b.k = "nan" THEN FNan
    ELSE IF a.k = "inf" THEN (IF b.k = "num" /\ b.n = 0 THEN FNan ELSE FInf)
    ELSE IF b.k = "inf" THEN (IF a.n = 0 THEN FNan ELSE FInf)
    ELSE FNum(a.n * b.n, a.d * b.d)

(* the column of factors: the first row has no previous row *)
Factors(prices) ==
    [i \in 1..Len(prices) |->
        IF i = 1 THEN FNan ELSE OnePlusPctChange(prices[i - 1], prices[i])]

(* Series.cumprod(), skipna: missing factors count as 1 in the running     *)
(* product and stay missing in the result                                  *)
RECURSIVE RunningProduct(_, _)
RunningProduct(f, i) ==
    IF i = 0 THEN FOne
    ELSE IF f[i].k = "nan" THEN RunningProduct(f, i - 1)
    ELSE FMul(RunningProduct(f, i - 1), f[i])

CumProd(f) ==
    [i \in 1..Len(f) |-> IF f[i].k = "nan" THEN FNan ELSE RunningProduct(f, i)]

(* the returned frame: per symbol the rows <<timestamp, cumulative return>> *)
(* computed from the table's column 'Close'                                *)
BaselineFrame(sl, tables) ==
    [s \in {sl[i] : i \in 1..Len(sl)} |->
        LET col == CumProd(Factors(Column(tables[s], "Close")))
        IN [i \in 1..Len(col) |-> <<tables[s].rows[i][1], col[i]>>]]

(* df['Close'] raises KeyError for a table without that column *)
BaselineOutcome(sl, tables) ==
    IF \A i \in 1..Len(sl) : HasColumn(tables[sl[i]], "Close")
    THEN [op |-> "create_baseline_dataframe", symbol |-> "", N |-> 0,
          kind |-> "return", value |-> BaselineFrame(sl, tables), exc |-> ""]
    ELSE Raised("create_baseline_dataframe", "KeyError")

(* variant: the loop reads self.symbol_data, the row iterators, and runs   *)
(* them to their end                                                       *)
create_baseline_dataframe_Consume ==
    /\ constructed /\ pc = "idle"
    /\ ret' = BaselineOutcome(symbol_list, symbol_dataframe)
    /\ symbol_data' = [s \in DOMAIN symbol_data |->
                          RowIterator(Len(symbol_dataframe[s].rows))]
    /\ UNCHANGED <<setup, symbol_dataframe, all_data,
                   latest_symbol_data, continue_backtest, events, calls,
                   pc, attempted>>

create_baseline_dataframe ==
    /\ constructed /\ pc = "idle"
    /\ ret' = BaselineOutcome(symbol_list, symbol_dataframe)
    /\ UNCHANGED <<setup, symbol_dataframe, all_data, symbol_data,
                   latest_symbol_data, continue_backtest, events, calls,
                   pc, attempted>>

(* -------------------- update_latest_data step by step ------------------ *)
(* The same method with its intermediate states: entry, one pass of the    *)
(* for loop per symbol, and the put after the loop.                        *)
(* variant: the put comes before the for loop *)
UpdateEnter_PutFirst ==
    /\ constructed /\ pc = "idle"
    /\ calls < TickBound
    /\ pc' = "loop"
    /\ attempted' = <<>>
    /\ calls' = calls + 1
    /\ ret' = NoCall
    /\ events' = Put(events)
    /\ UNCHANGED <<setup, symbol_dataframe, all_data, symbol_data,
                   latest_symbol_data, continue_backtest>>

UpdateEnter ==
    /\ constructed /\ pc = "idle"
    /\ calls < TickBound
    /\ pc' = "loop"
    /\ attempted' = <<>>
    /\ calls' = calls + 1
    /\ ret' = NoCall
    /\ UNCHANGED <<setup, symbol_dataframe, all_data, symbol_data,
                   latest_symbol_data, continue_backtest, events>>

UpdateAttempt ==
    /\ pc = "loop"
    /\ Len(attempted) < Len(symbol_list)
    /\ LET symbol == symbol_list[Len(attempted) + 1]
           st == UpdateSymbol(LoopState, symbol)
       IN /\ symbol_data' = st.symbol_data
          /\ latest_symbol_data' = st.latest_symbol_data
          /\ continue_backtest' = st.continue_backtest
          /\ attempted' = Append(attempted, symbol)
          /\ IF st.exc = ""
             THEN UNCHANGED <<pc, ret>>
             ELSE /\ pc' = "idle"
                  /\ ret' = Raised("update_latest_data", st.exc)
    /\ UNCHANGED <<setup, symbol_dataframe, all_data, events, calls>>

UpdatePut ==
    /\ pc = "loop"
    /\ Len(attempted) = Len(symbol_list)
    /\ events' = Put(events)
    /\ pc' = "idle"
    /\ ret' = Returned("update_latest_data")
    /\ UNCHANGED <<setup, symbol_dataframe, all_data, symbol_data,
                   latest_symbol_data, continue_backtest, calls, attempted>>


Next ==
    \/ update_latest_data
    \/ GetLatest
    \/ create_baseline_dataframe
    \/ ParseYahoo
    \/ ParseNasdaq

Spec == Init /\ [][Next]_vars

NextSteps ==
    \/ UpdateEnter
    \/ UpdateAttempt
    \/ UpdatePut
    \/ GetLatest
    \/ create_baseline_dataframe
    \/ ParseYahoo
    \/ ParseNasdaq

SpecSteps == Init /\ [][NextSteps]_vars

(* the scenario of two symbols: A with 5 daily bars, B with 3 daily bars   *)
(* on A's first 3 dates, declared in either order                          *)
ScenarioDatesA == 1..5
ScenarioDatesB == 1..3

InitScenario ==
    \E handler \in Handlers, sl \in {<<"A", "B">>, <<"B", "A">>} :
      \E header \in Headers(handler) :
        /\ unavailable = {}
        /\ Constructed(handler, sl,
              [s \in {"A", "B"} |->
                  FileOf(handler, header,
                         SortedRows(IF s = "A" THEN ScenarioDatesA
                                    ELSE ScenarioDatesB, {}, Len(header)))])

SpecScenario == InitScenario /\ [][Next]_vars

(* ----------------------------- properties ------------------------------ *)
(* the series a symbol has after its loader ran, before alignment *)
NativeSeries(s) ==
    IF source = "QUANDL" THEN _get_nasdaq_data(files[s])
    ELSE Load(source, files[s])

Table(s) == symbol_dataframe[s].rows
Buffer(s) == latest_symbol_data[s]
Min(a, b) == IF a < b THEN a ELSE b

(* rows of the calendar every table is aligned on *)
CalendarRows == Len(Table(symbol_list[1]))

(* the engine state a replay call may touch *)
replay == <<symbol_data, latest_symbol_data, continue_backtest, events>>

IsUpdate == calls' = calls + 1

(* self.symbol_data[s] is still the row iterator made at construction: no  *)
(* parse_yahoo_csv / parse_nasdaq_csv call has stored a frame in its place *)
IsRowIterator(s) == symbol_data[s].type = "iterrows"

(* next(self._get_new_data(s)) would raise StopIteration *)
Exhausted(s) ==
    IF IsRowIterator(s) THEN symbol_data[s].taken = Len(Table(s))
    ELSE symbol_data[s].columns = <<>>

(* C1: continue_backtest is TRUE after construction, and a step makes it   *)
(* FALSE exactly when it already was FALSE or the step is an               *)
(* update_latest_data call that finds some symbol's iterator without a     *)
(* row left; so once FALSE it is FALSE after every later call.             *)
C1_LockstepTermination ==
    /\ continue_backtest = TRUE
    /\ [][continue_backtest' =
            (continue_backtest /\
             ~(IsUpdate /\ \E s \in Symbols : Exhausted(s)))]_vars

C1_Witness ==
    /\ ~continue_backtest
    /\ ret.op = "get_latest_data"
    /\ \E s \in Symbols : Len(Table(s)) > 0 /\ calls > Len(Table(s)) + 1

(* C2: in every step each symbol's buffer stays as it is or gets exactly   *)
(* one bar appended at its end: the old buffer is a prefix of the new one  *)
(* and the length grows by 0 or 1.                                         *)
C2_MonotonicGrowth ==
    [][\A s \in Symbols :
         \/ latest_symbol_data'[s] = latest_symbol_data[s]
         \/ /\ Len(latest_symbol_data'[s]) = Len(latest_symbol_data[s]) + 1
            /\ SubSeq(latest_symbol_data'[s], 1, Len(latest_symbol_data[s]))
                 = latest_symbol_data[s]]_vars

C2_Witness ==
    \E s \in Symbols : Len(Buffer(s)) = 2 /\ calls > Len(Buffer(s))

(* C3: after k update_latest_data calls the event queue has received       *)
(* exactly k MarketEvents, whether the calls produced bars or not.         *)
C3_OneEventPerCall ==
    /\ Len(events) = calls
    /\ \A i \in 1..Len(events) : events[i] = "MarketEvent"

C3_Witness ==
    /\ Len(symbol_list) = 2
    /\ calls >= 3
    /\ ~continue_backtest
    /\ \E s \in Symbols : Len(Buffer(s)) > 0

(* C4 as stated: once continue_backtest is FALSE, an update_latest_data    *)
(* call leaves buffers, iterators, the flag and the event queue unchanged. *)
C4_NoOpAfterStop ==
    [][(~continue_backtest /\ IsUpdate) => UNCHANGED replay]_vars

(* C4 amended: once continue_backtest is FALSE, an update_latest_data call *)
(* leaves the flag FALSE and puts one more MarketEvent on the event queue; *)
(* it leaves the iterator and the buffer of every symbol that is still on  *)
(* its row iterator unchanged, and appends the bar of the first column     *)
(* label to the buffer of a symbol whose loader was called again.          *)
C4_OnlyEventAfterStop ==
    [][(~continue_backtest /\ IsUpdate) =>
          /\ continue_backtest' = FALSE
          /\ events' = Append(events, "MarketEvent")
          /\ symbol_data' = symbol_data
          /\ \A s \in Symbols :
                IF IsRowIterator(s)
                THEN latest_symbol_data'[s] = latest_symbol_data[s]
                ELSE latest_symbol_data'[s] =
                        Append(latest_symbol_data[s],
                               LabelBar(s, symbol_data[s].columns[1]))]_vars

C4_Witness ==
    /\ ~continue_backtest
    /\ \A s \in Symbols : IsRowIterator(s)
    /\ \E s \in Symbols : Len(Buffer(s)) > 0 /\ calls >= Len(Table(s)) + 2
    /\ Len(events) >= 2

(* C5: in every state every symbol's buffer is the first n rows of its     *)
(* aligned table, as bars, in increasing timestamp order, n being the      *)
(* buffer's length.                                                        *)
RowsAsBars(s, n) == [i \in 1..n |-> <<s, Table(s)[i][1], Table(s)[i][2]>>]

LastBars(buf, n) == SubSeq(buf, Len(buf) - Min(n, Len(buf)) + 1, Len(buf))

C6_LastMinNBars ==
    (ret.op = "get_latest_data" /\ ret.symbol \in Symbols) =>
        /\ ret.kind = "return"
        /\ ret.value = LastBars(Buffer(ret.symbol), ret.N)

(* C7: get_latest_data for a symbol that was not loaded ends in an error,  *)
(* an outcome different from the empty list a loaded symbol with an empty  *)
(* buffer gives, and the call changes nothing of the engine.               *)
C7_UnknownSymbolIsError ==
    [][(ret'.op = "get_latest_data" /\ ret'.symbol \notin Symbols) =>
          /\ ret'.kind = "raise"
          /\ <<ret'.kind, ret'.value>> # <<"return", <<>>>>
          /\ UNCHANGED replay
          /\ UNCHANGED <<symbol_dataframe, all_data, symbol_list>>]_vars

C7_Witness ==
    /\ ret.op = "get_latest_data"
    /\ ret.symbol = UnknownSymbol
    /\ ret.kind = "raise"
    /\ calls >= 1
    /\ \E s \in Symbols : Len(Buffer(s)) > 0

(* C8 as stated: in the scenario, in either declaration order, after 3     *)
(* calls the flag is TRUE and both buffers hold 3 bars, and after the 4th  *)
(* call the flag is FALSE and A's buffer still holds 3 bars.               *)
C8_ShortestHistory ==
    /\ calls = 3 => /\ continue_backtest
                    /\ Len(Buffer("A")) = 3 /\ Len(Buffer("B")) = 3
    /\ calls = 4 => ~continue_backtest /\ Len(Buffer("A")) = 3

(* C8 amended: after 3 calls the flag is TRUE and both buffers hold 3      *)
(* bars.  After the 4th call, with A declared first the flag is still TRUE *)
(* and both buffers hold 4 bars.  With B declared first every buffer holds *)
(* 3 or 4 bars: 3 when the 4th call found the symbol's row iterator empty, *)
(* as it does for every symbol still on its row iterator, and 4, the last  *)
(* one the bar of the first column label, when the symbol's loader was     *)
(* called again before the 4th call; the flag is FALSE exactly when some   *)
(* buffer holds 3 bars.                                                    *)
C8_FirstSymbolHistory ==
    /\ calls = 3 => /\ continue_backtest
                    /\ Len(Buffer("A")) = 3 /\ Len(Buffer("B")) = 3
    /\ (calls = 4 /\ symbol_list[1] = "A") =>
          /\ continue_backtest
          /\ Len(Buffer("A")) = 4 /\ Len(Buffer("B")) = 4
    /\ (calls = 4 /\ symbol_list[1] = "B") =>
          /\ \A s \in Symbols :
                /\ Len(Buffer(s)) \in {3, 4}
                /\ IsRowIterator(s) => Len(Buffer(s)) = 3
                /\ Len(Buffer(s)) = 4 =>
                      /\ ~IsRowIterator(s)
                      /\ Buffer(s)[4] = LabelBar(s, symbol_data[s].columns[1])
          /\ continue_backtest <=> \A s \in Symbols : Len(Buffer(s)) = 4

C8_Witness ==
    /\ calls = 4
    /\ symbol_list = <<"B", "A">>
    /\ \A s \in Symbols : IsRowIterator(s)
    /\ ~continue_backtest
    /\ Len(Buffer("A")) = 3

(* C9: every timestamp of any symbol's loaded series is a row of every     *)
(* aligned table.                                                          *)
C9_UnionCalendar ==
    \A s \in Symbols, t \in Symbols :
        IndexSet(NativeSeries(t)) \subseteq IndexSet(symbol_dataframe[s])

(* C10: all aligned tables carry the same timestamps in the same order,    *)
(* hence the same number of rows.                                          *)
C10_SameCalendar ==
    \A s \in Symbols, t \in Symbols :
        /\ Index(symbol_dataframe[s]) = Index(symbol_dataframe[t])
        /\ Index(all_data[s]) = Index(all_data[t])

C10_Witness ==
    /\ Len(symbol_list) = 2
    /\ \E s \in Symbols, t \in Symbols :
          /\ IndexSet(NativeSeries(s)) # IndexSet(NativeSeries(t))
          /\ IndexSet(NativeSeries(t)) \ IndexSet(NativeSeries(s)) # {}
          /\ IndexSet(NativeSeries(s)) \ IndexSet(NativeSeries(t)) # {}
          /\ Len(Table(s)) > 0

(* C11: the values of a symbol's aligned table at timestamp T are those of *)
(* the symbol's loaded row with the greatest timestamp at or before T, and *)
(* are missing when the symbol has no loaded row at or before T.           *)
C11_ForwardFill ==
    \A s \in Symbols : \A i \in 1..Len(Table(s)) :
        LET T == Table(s)[i][1]
            nat == NativeSeries(s).rows
            earlier == {j \in 1..Len(nat) : nat[j][1] <= T}
        IN /\ all_data[s].rows[i] = Table(s)[i]
           /\ IF earlier = {}
              THEN \A k \in 2..Len(Table(s)[i]) : Table(s)[i][k] = NaN
              ELSE \E j \in earlier :
                     /\ \A k \in earlier : nat[k][1] <= nat[j][1]
                     /\ Tail(Table(s)[i]) = Tail(nat[j])

C11_Witness ==
    \E s \in Symbols : \E i \in 1..Len(Table(s)) :
        /\ Table(s)[i][1] \notin IndexSet(NativeSeries(s))
        /\ Table(s)[i][2] # NaN
        /\ Len(NativeSeries(s).rows) = 1

(* C12: no row of an aligned table and no bar of a buffer carries a price  *)
(* <= 0, whichever loader built the tables.                                *)
C12_NoNonPositivePrice ==
    \A s \in Symbols :
        /\ \A i \in 1..Len(Table(s)) :
              Table(s)[i][2] = NaN \/ Table(s)[i][2] > 0
        /\ \A i \in 1..Len(Buffer(s)) :
              Buffer(s)[i][3] = NaN \/ Buffer(s)[i][3] > 0

(* C13: no bar with a missing price is ever appended to a buffer.          *)
C13_NoUndefinedBar ==
    \A s \in Symbols : \A i \in 1..Len(Buffer(s)) : Buffer(s)[i][3] # NaN

(* C14: when a requested symbol has no data, __init__ raises: there is no *)
(* handler to call, no method has run and the event queue is empty.        *)
C14_NoPartialUniverse ==
    (\E i \in 1..Len(requested) : requested[i] \in unavailable) =>
        /\ ~constructed
        /\ symbol_list = <<>>
        /\ events = <<>>
        /\ calls = 0
        /\ ret = NoCall

C14_Witness ==
    /\ ~constructed
    /\ Len(requested) = 2
    /\ Cardinality(unavailable) = 1

(* C15: create_baseline_dataframe gives the outcome computed from the      *)
(* tables as they were copied at construction (the frame of cumulative     *)
(* returns, or KeyError for tables without a column 'Close'), whenever it  *)
(* is called, and changes no iterator, buffer, flag, queue or table; the   *)
(* replay of a symbol on its row iterator goes on revealing the rows of    *)
(* those tables one per call.                                              *)
C15_BaselineIndependent ==
    /\ [][ret'.op = "create_baseline_dataframe" =>
            /\ ret' = BaselineOutcome(symbol_list, all_data)
            /\ UNCHANGED <<symbol_data, latest_symbol_data, continue_backtest,
                           events, calls, symbol_dataframe, all_data>>]_vars
    /\ [](\A s \in Symbols :
            IsRowIterator(s) =>
              Buffer(s) = [i \in 1..Min(calls, Len(all_data[s].rows)) |->
                            <<s, all_data[s].rows[i][1], all_data[s].rows[i][2]>>])

C15_Witness ==
    /\ ret.op = "create_baseline_dataframe"
    /\ ret.kind = "return"
    /\ continue_backtest
    /\ calls = 1
    /\ \E s \in Symbols :
          IsRowIterator(s) /\ Len(Buffer(s)) = 1 /\ Len(Table(s)) = 2

(* C16: in the returned frame the first row of every symbol's column that  *)
(* is not missing equals 1.0.                                              *)
C16_FirstDefinedIsOne ==
    (ret.op = "create_baseline_dataframe" /\ ret.kind = "return") =>
        \A s \in Symbols : \A i \in 1..Len(ret.value[s]) :
            (/\ ret.value[s][i][2].k # "nan"
             /\ \A j \in 1..(i - 1) : ret.value[s][j][2].k = "nan")
            => ret.value[s][i][2] = FOne

(* C17: inside update_latest_data the symbols are tried in symbol_list     *)
(* order, and the MarketEvent is put only when all of them have been       *)
(* tried: at the put every bar of this call is in its buffer and the flag  *)
(* is already FALSE if an iterator was found empty.                        *)
C17_NotifyAfterAllSymbols ==
    /\ [](/\ Len(attempted) <= Len(symbol_list)
          /\ attempted = SubSeq(symbol_list, 1, Len(attempted)))
    /\ [][events' # events =>
            /\ events' = Append(events, "MarketEvent")
            /\ attempted = symbol_list
            /\ \A s \in Symbols :
                  IF IsRowIterator(s)
                  THEN Buffer(s) = RowsAsBars(s, Min(calls, Len(Table(s))))
                  ELSE /\ Len(Buffer(s)) > 0
                       /\ Buffer(s)[Len(Buffer(s))] =
                             LabelBar(s, symbol_data[s].columns[1])
            /\ (\E s \in Symbols : IsRowIterator(s) /\ calls > Len(Table(s)))
                  => ~continue_backtest
            /\ (\A s \in Symbols : IsRowIterator(s))
                  => (continue_backtest = (calls <= CalendarRows))
            /\ UNCHANGED <<symbol_data, latest_symbol_data,
                           continue_backtest>>]_vars

C17_Witness ==
    /\ pc = "idle"
    /\ Len(symbol_list) = 2
    /\ attempted = symbol_list
    /\ Len(events) = 2
    /\ \A s \in Symbols : Len(Buffer(s)) = 2

(* C18: every update_latest_data call on a constructed handler returns     *)
(* normally, also with empty iterators and after the flag is FALSE; an     *)
(* empty iterator shows only in the flag.                                  *)
C18_UpdateNeverRaises ==
    /\ [](ret.op = "update_latest_data" => ret.kind = "return")
    /\ [][IsUpdate =>
            /\ ret' = Returned("update_latest_data")
            /\ (\E s \in Symbols : Exhausted(s)) => ~continue_backtest']_vars

C18_Witness ==
    /\ ret = Returned("update_latest_data")
    /\ ~continue_backtest
    /\ calls >= CalendarRows + 2
    /\ CalendarRows > 0

====
